---- MODULE Spec2Model ----
(***************************************************************************)
(* The tree utilities of @sylphlab/ast-core and @sylphlab/ast-javascript:  *)
(* traverse, findNodesByType, findFirst, filterNodes and transformNode     *)
(* over CstNode trees.                                                     *)
(*                                                                         *)
(* A CstNode is a JavaScript object, so the model keeps a heap of objects: *)
(* heap[a] is the object at address a, and a node's children is a sequence *)
(* of addresses.  Object identity (sharing) and in-place writes are        *)
(* therefore expressible; a spread {...node, children: c} allocates a new  *)
(* object at the end of the heap.                                          *)
(***************************************************************************)
EXTENDS Integers, Sequences, FiniteSets, TLC

\* Largest number of nodes of an input tree.
MaxNodes == 4

\* The absent marker null (no heap address is 0).
Null == 0

\* Values of CstNode.type met in the documented usages.
Types == {"Program", "VariableDeclaration", "Identifier"}

\* A predicate of the documented shape `node.type === A || node.type === B`
\* is the set of types it accepts: Types is always-true, {} is always-false.
\* {"hasChildren"} is the type guard hasChildren used as the predicate.
Predicates == SUBSET Types \cup {{"hasChildren"}}

\* The transformers handed to transformNode.
Transformers == {"identity", "rename", "dropChildren"}

VARIABLES
  heap,     \* Seq of CstNode objects, addressed by index
  input,    \* the heap as it was before the call (history variable)
  root,     \* address of the root of the input tree
  op,       \* the operation that ran: "none" before any call
  arg,      \* its second argument (a predicate, a type, a transformer)
  calls,    \* the nodes the callback / predicate / transformer was called on, in call order
  result,   \* the node (address) or Null it returned
  results,  \* the array findNodesByType returned
  lang,     \* the language package whose parse is called: "python" or "javascript"
  source,   \* the source text handed to parse: a sequence of characters
  tokens,   \* the token stream of the lexer (default channel), EOF last
  tree,     \* the parse tree the parser returned, NoTree before it ran
  errors,   \* the number of syntax errors the parser reported
  ast,      \* the value of visitor.visit(tree), NoNode before it ran
  pc,       \* the statement of parse that runs next
  parser,   \* how the generated parser of the build recovers from a syntax error
  call      \* the locals of each of several calls of parse: code, tokens, tree, ast, pc

treeVars == <<heap, input, root, op, arg, calls, result, results>>
parseVars == <<lang, source, tokens, tree, errors, ast, pc>>
callVars == <<parser, call>>
vars == <<treeVars, parseVars, callVars>>

----------------------------------------------------------------------------
(* CstNode and Position *)

\* interface Position { startOffset; endOffset }
Position(s, e) == [startOffset |-> s, endOffset |-> e]

\* interface CstNode { type; text; position; children? }.
\* `defined` is FALSE when the children field is undefined (a Token);
\* text is a sequence of string fragments so that `text + '_renamed'` is \o.
CstNode(type, text, position, defined, children) ==
  [type |-> type, text |-> text, position |-> position,
   defined |-> defined, children |-> children]

\* function isToken(node) { return node.children === undefined }
isToken(node) == ~node.defined

\* function hasChildren(node) { return Array.isArray(node.children) && node.children.length > 0 }
hasChildren(node) == node.defined /\ Len(node.children) > 0

\* `if (node.children)`: an array, the empty one included, is truthy; undefined is not.
truthyChildren(node) == node.defined

\* The predicate `node.type === ...` applied to a node.
predicate(P, node) == node.type \in P \/ (P = {"hasChildren"} /\ hasChildren(node))

----------------------------------------------------------------------------
(* Input trees *)

\* The children of node a under the parent vector p: the nodes whose parent
\* is a, in source order.
RECURSIVE ChildrenOf(_, _, _, _)
ChildrenOf(p, n, a, i) ==
  IF i > n THEN <<>>
  ELSE (IF p[i] = a THEN <<i>> ELSE <<>>) \o ChildrenOf(p, n, a, i + 1)

\* The heap holding one tree of n nodes rooted at address 1.
TreeHeap(n, p, ty, defined) ==
  [a \in 1..n |->
     LET kids == ChildrenOf(p, n, a, 2)
     IN CstNode(ty[a], << IF a % 2 = 1 THEN "x" ELSE "y" >>, Position(a - 1, a + 1),
                defined[a], kids)]

\* The parent vectors of the trees of n nodes: node 1 is the root and the parent
\* of a node has a smaller address (children are built before they are attached
\* or after, the address order is not the document order).
Shapes(n) ==
  { p \in [1..n -> 0..n] : p[1] = 0 /\ \A i \in 2..n : 1 <= p[i] /\ p[i] < i }

\* Which nodes carry a children array: every node that has children, and any
\* choice for a childless one (a Token, or a node whose children is []).
Defineds(n, p) ==
  { d \in [1..n -> BOOLEAN] : \A a \in 1..n : ChildrenOf(p, n, a, 2) # <<>> => d[a] }

----------------------------------------------------------------------------
(* Tree Traversal *)

\* function traverse(node, callback) { callback(node);
\*   if (node.children) for (const child of node.children) traverse(child, callback) }
\* The value is the sequence of nodes the callback was called on.
RECURSIVE traverse(_, _)
RECURSIVE traverseChildren(_, _, _)
traverseChildren(h, kids, i) ==
  IF i > Len(kids) THEN <<>>
  ELSE traverse(h, kids[i]) \o traverseChildren(h, kids, i + 1)

\* A traverse that calls back after the children (post-order).
traversePostOrder(h, node) ==
  (IF truthyChildren(h[node]) THEN traverseChildren(h, h[node].children, 1) ELSE <<>>)
  \o <<node>>

traverse(h, node) ==
  <<node>> \o (IF truthyChildren(h[node]) THEN traverseChildren(h, h[node].children, 1)
               ELSE <<>>)

\* function findNodesByType(root, type) { results = [];
\*   traverse(root, node => { if (node.type === type) results.push(node) }); return results }
\* A findNodesByType that collects with unshift instead of push.
RECURSIVE Reverse(_)
Reverse(s) == IF s = <<>> THEN <<>> ELSE Reverse(Tail(s)) \o <<Head(s)>>

findNodesByTypeUnshift(h, r, type) ==
  Reverse(SelectSeq(traverse(h, r), LAMBDA node : h[node].type = type))

findNodesByType(h, r, type) ==
  SelectSeq(traverse(h, r), LAMBDA node : h[node].type = type)

\* function findFirst(root, predicate) { if (predicate(root)) return root;
\*   if (root.children) for (child of root.children) { found = findFirst(child, predicate);
\*   if (found) return found } return null }
\* The value is the node found and the nodes the predicate was evaluated on.
RECURSIVE findFirst(_, _, _)
RECURSIVE findFirstChildren(_, _, _, _)
\* A loop that goes on through the later siblings after a match and returns
\* the first match at its end.
findFirstChildrenNoBreak(h, kids, i, P) ==
  IF i > Len(kids) THEN [found |-> Null, evals |-> <<>>]
  ELSE LET r    == findFirst(h, kids[i], P)
           rest == findFirstChildren(h, kids, i + 1, P)
       IN [found |-> IF r.found # Null THEN r.found ELSE rest.found,
           evals |-> r.evals \o rest.evals]

findFirstChildren(h, kids, i, P) ==
  IF i > Len(kids) THEN [found |-> Null, evals |-> <<>>]
  ELSE LET r == findFirst(h, kids[i], P)
       IN IF r.found # Null THEN r
          ELSE LET rest == findFirstChildren(h, kids, i + 1, P)
               IN [found |-> rest.found, evals |-> r.evals \o rest.evals]

\* A findFirst that searches the children before it tests the node itself.
findFirstChildrenFirst(h, node, P) ==
  LET r == IF truthyChildren(h[node]) THEN findFirstChildren(h, h[node].children, 1, P)
           ELSE [found |-> Null, evals |-> <<>>]
  IN IF r.found # Null THEN r
     ELSE [found |-> IF predicate(P, h[node]) THEN node ELSE Null,
           evals |-> r.evals \o <<node>>]

findFirst(h, node, P) ==
  IF predicate(P, h[node]) THEN [found |-> node, evals |-> <<node>>]
  ELSE IF truthyChildren(h[node])
       THEN LET r == findFirstChildren(h, h[node].children, 1, P)
            IN [found |-> r.found, evals |-> <<node>> \o r.evals]
       ELSE [found |-> Null, evals |-> <<node>>]

----------------------------------------------------------------------------
(* AST Filtering *)

\* The object literal { ...node, children: c }: a new object at the end of the heap.
\* The value is the new heap and the address of the new object.
\* The in-place write `node.children = c; return node` instead of the spread.
assignChildren(h, node, c) ==
  [heap |-> [h EXCEPT ![node].defined = TRUE, ![node].children = c], node |-> node]

spreadWithChildren(h, node, c) ==
  [heap |-> Append(h, [h[node] EXCEPT !.defined = TRUE, !.children = c]),
   node |-> Len(h) + 1]

\* function filterNodes(node, predicate) { if (!predicate(node)) return null;
\*   if (!node.children) return node;
\*   filteredChildren = node.children.map(child => filterNodes(child, predicate))
\*                                   .filter(child => child !== null);
\*   return { ...node, children: filteredChildren } }
\* The value is the heap after the call, the node returned and the nodes the
\* predicate was evaluated on.
RECURSIVE filterNodes(_, _, _)
RECURSIVE filterNodesMap(_, _, _, _)
\* node.children.map(child => filterNodes(child, predicate)): left to right,
\* each call seeing the heap the previous one left.
filterNodesMap(h, kids, i, P) ==
  IF i > Len(kids) THEN [heap |-> h, nodes |-> <<>>, evals |-> <<>>]
  ELSE LET r    == filterNodes(h, kids[i], P)
           rest == filterNodesMap(r.heap, kids, i + 1, P)
       IN [heap |-> rest.heap, nodes |-> <<r.result>> \o rest.nodes,
           evals |-> r.evals \o rest.evals]

\* A filterNodes without the `if (!node.children) return node` line: a Token
\* comes back as a node with children [].
filterNodesNoLeafCase(h, node, P) ==
  IF ~predicate(P, h[node]) THEN [heap |-> h, result |-> Null, evals |-> <<node>>]
  ELSE LET m == filterNodesMap(h, h[node].children, 1, P)
           filteredChildren == SelectSeq(m.nodes, LAMBDA child : child # Null)
           made == spreadWithChildren(m.heap, node, filteredChildren)
       IN [heap |-> made.heap, result |-> made.node, evals |-> <<node>> \o m.evals]

\* A filterNodes that answers a failing node with an emptied copy instead of null.
filterNodesEmptyForFailing(h, node, P) ==
  IF ~predicate(P, h[node])
  THEN LET made == spreadWithChildren(h, node, <<>>)
       IN [heap |-> made.heap, result |-> made.node, evals |-> <<node>>]
  ELSE IF ~truthyChildren(h[node]) THEN [heap |-> h, result |-> node, evals |-> <<node>>]
  ELSE LET m == filterNodesMap(h, h[node].children, 1, P)
           filteredChildren == SelectSeq(m.nodes, LAMBDA child : child # Null)
           made == spreadWithChildren(m.heap, node, filteredChildren)
       IN [heap |-> made.heap, result |-> made.node, evals |-> <<node>> \o m.evals]

\* A filterNodes that returns the node itself when no child survives.
filterNodesSelfWhenEmpty(h, node, P) ==
  IF ~predicate(P, h[node]) THEN [heap |-> h, result |-> Null, evals |-> <<node>>]
  ELSE IF ~truthyChildren(h[node]) THEN [heap |-> h, result |-> node, evals |-> <<node>>]
  ELSE LET m == filterNodesMap(h, h[node].children, 1, P)
           filteredChildren == SelectSeq(m.nodes, LAMBDA child : child # Null)
           made == spreadWithChildren(m.heap, node, filteredChildren)
       IN IF filteredChildren = <<>>
          THEN [heap |-> m.heap, result |-> node, evals |-> <<node>> \o m.evals]
          ELSE [heap |-> made.heap, result |-> made.node, evals |-> <<node>> \o m.evals]

\* A shallow filterNodes: node.children.filter(predicate), without the recursion.
filterNodesShallow(h, node, P) ==
  IF ~predicate(P, h[node]) THEN [heap |-> h, result |-> Null, evals |-> <<node>>]
  ELSE IF ~truthyChildren(h[node]) THEN [heap |-> h, result |-> node, evals |-> <<node>>]
  ELSE LET filteredChildren == SelectSeq(h[node].children,
                                         LAMBDA child : predicate(P, h[child]))
           made == spreadWithChildren(h, node, filteredChildren)
       IN [heap |-> made.heap, result |-> made.node,
           evals |-> <<node>> \o h[node].children]

filterNodes(h, node, P) ==
  IF ~predicate(P, h[node]) THEN [heap |-> h, result |-> Null, evals |-> <<node>>]
  ELSE IF ~truthyChildren(h[node]) THEN [heap |-> h, result |-> node, evals |-> <<node>>]
  ELSE LET m == filterNodesMap(h, h[node].children, 1, P)
           filteredChildren == SelectSeq(m.nodes, LAMBDA child : child # Null)
           made == spreadWithChildren(m.heap, node, filteredChildren)
       IN [heap |-> made.heap, result |-> made.node, evals |-> <<node>> \o m.evals]

----------------------------------------------------------------------------
(* AST Transformation *)

\* A transformer (node) => CstNode that does not write to its argument.
\*   identity:     node => node
\*   rename:       node => node.type === 'Identifier'
\*                           ? { ...node, text: node.text + '_renamed' } : node
\*   dropChildren: node => node.type === 'VariableDeclaration'
\*                           ? { ...node, children: [] } : node
\* The value is the heap after the call and the node returned.
transformer(T, h, node) ==
  IF T = "rename" /\ h[node].type = "Identifier"
  THEN [heap |-> Append(h, [h[node] EXCEPT !.text = @ \o <<"_renamed">>]),
        node |-> Len(h) + 1]
  ELSE IF T = "dropChildren" /\ h[node].type = "VariableDeclaration"
  THEN spreadWithChildren(h, node, <<>>)
  ELSE [heap |-> h, node |-> node]

\* function transformNode(node, transformer) { transformed = transformer(node);
\*   if (transformed.children) return { ...transformed,
\*       children: transformed.children.map(child => transformNode(child, transformer)) };
\*   return transformed }
\* The value is the heap after the call, the node returned and the nodes the
\* transformer was called on.
RECURSIVE transformNode(_, _, _)
RECURSIVE transformNodeMap(_, _, _, _)
\* A map that collects the transformed children with unshift: in reverse.
transformNodeMapUnshift(h, kids, i, T) ==
  IF i > Len(kids) THEN [heap |-> h, nodes |-> <<>>, calls |-> <<>>]
  ELSE LET r    == transformNode(h, kids[i], T)
           rest == transformNodeMap(r.heap, kids, i + 1, T)
       IN [heap |-> rest.heap, nodes |-> rest.nodes \o <<r.result>>,
           calls |-> r.calls \o rest.calls]

transformNodeMap(h, kids, i, T) ==
  IF i > Len(kids) THEN [heap |-> h, nodes |-> <<>>, calls |-> <<>>]
  ELSE LET r    == transformNode(h, kids[i], T)
           rest == transformNodeMap(r.heap, kids, i + 1, T)
       IN [heap |-> rest.heap, nodes |-> <<r.result>> \o rest.nodes,
           calls |-> r.calls \o rest.calls]

\* A bottom-up transformNode: the children are transformed first, the
\* transformer is applied to the rebuilt node last.
transformNodeBottomUp(h, node, T) ==
  IF truthyChildren(h[node])
  THEN LET m    == transformNodeMap(h, h[node].children, 1, T)
           made == spreadWithChildren(m.heap, node, m.nodes)
           transformed == transformer(T, made.heap, made.node)
       IN [heap |-> transformed.heap, result |-> transformed.node,
           calls |-> m.calls \o <<node>>]
  ELSE LET transformed == transformer(T, h, node)
       IN [heap |-> transformed.heap, result |-> transformed.node, calls |-> <<node>>]

transformNode(h, node, T) ==
  LET transformed == transformer(T, h, node)
  IN IF truthyChildren(transformed.heap[transformed.node])
     THEN LET m == transformNodeMap(transformed.heap,
                                    transformed.heap[transformed.node].children, 1, T)
              made == spreadWithChildren(m.heap, transformed.node, m.nodes)
          IN [heap |-> made.heap, result |-> made.node, calls |-> <<node>> \o m.calls]
     ELSE [heap |-> transformed.heap, result |-> transformed.node, calls |-> <<node>>]

----------------------------------------------------------------------------
(* Source text and the lexer *)

\* Most statements of one source text.
MaxStatements == 2

\* Most blanks between two tokens, before the first and after the last.
MaxGap == 1

Max(a, b) == IF a >= b THEN a ELSE b

WordChars == {"c", "o", "n", "s", "t", "x", "4", "2", "p", "a", "i", "f"}

\* The statements a source text is made of, by language, and the text of
\* their tokens.  "bad" and "declBad" are malformed: `=` cannot start a Python
\* statement, and `const x = ;` (the documented malformed input) lacks the
\* expression.
Kinds(l) ==
  IF l = "python" THEN {"simple", "simple2", "compound", "bad"}
  ELSE {"decl", "declNoInit", "declBad"}

Malformed == {"bad", "declBad"}

StmtTexts(kind) ==
  CASE kind = "simple"     -> << <<"p","a","s","s">>, <<"\n">> >>
    [] kind = "simple2"    -> << <<"p","a","s","s">>, <<";">>, <<"p","a","s","s">>, <<"\n">> >>
    [] kind = "compound"   -> << <<"i","f">>, <<"x">>, <<":">>, <<"p","a","s","s">>, <<"\n">> >>
    [] kind = "bad"        -> << <<"=">>, <<"\n">> >>
    [] kind = "decl"       -> << <<"c","o","n","s","t">>, <<"x">>, <<"=">>, <<"4","2">>, <<";">> >>
    [] kind = "declNoInit" -> << <<"c","o","n","s","t">>, <<"x">>, <<";">> >>
    [] kind = "declBad"    -> << <<"c","o","n","s","t">>, <<"x">>, <<"=">>, <<";">> >>

\* The token texts of a whole program, in source order.
RECURSIVE ProgTexts(_)
ProgTexts(prog) ==
  IF prog = <<>> THEN <<>> ELSE StmtTexts(Head(prog)) \o ProgTexts(Tail(prog))

Blanks(k) == [i \in 1..k |-> " "]

IsWord(text) == text[1] \in WordChars

\* The source text: the token texts with gap blanks around them, and at least
\* one blank between two words.
RECURSIVE RenderFrom(_, _, _)
RenderFrom(texts, i, gap) ==
  IF i > Len(texts) THEN Blanks(gap)
  ELSE Blanks(IF i > 1 /\ IsWord(texts[i - 1]) /\ IsWord(texts[i])
              THEN Max(gap, 1) ELSE gap)
       \o texts[i] \o RenderFrom(texts, i + 1, gap)

Render(prog, gap) == RenderFrom(ProgTexts(prog), 1, gap)

\* The text of the end-of-file token.
EofText == <<"<", "E", "O", "F", ">">>

\* interface Token of the parser runtime: type, text, startIndex, stopIndex
\* (both 0-based, stopIndex inclusive).
Tok(type, text, startIndex, stopIndex) ==
  [type |-> type, text |-> text, startIndex |-> startIndex, stopIndex |-> stopIndex]

\* The last position (1-based) of the run of word characters that starts at i.
RECURSIVE WordEnd(_, _)
WordEnd(src, i) ==
  IF i < Len(src) /\ src[i + 1] \in WordChars THEN WordEnd(src, i + 1) ELSE i

\* The lexer: blanks are skipped (WS -> skip), a run of word characters is one
\* token, any other character is a token of its own, and the stream ends with
\* the EOF token, which starts at the length of the text, stops one before it
\* and has the text <EOF>.
RECURSIVE LexFrom(_, _)
LexFrom(src, i) ==
  IF i > Len(src) THEN << Tok("EOF", EofText, Len(src), Len(src) - 1) >>
  ELSE IF src[i] = " " THEN LexFrom(src, i + 1)
  ELSE IF src[i] \in WordChars
       THEN LET j == WordEnd(src, i)
            IN << Tok("WORD", SubSeq(src, i, j), i - 1, j - 1) >> \o LexFrom(src, j + 1)
       ELSE << Tok(IF src[i] = "\n" THEN "NEWLINE" ELSE "PUNCT", <<src[i]>>, i - 1, i - 1) >>
            \o LexFrom(src, i + 1)

Lexer(src) == LexFrom(src, 1)

\* source.substring(startOffset, endOffset)
substring(src, startOffset, endOffset) ==
  LET a == Max(0, IF startOffset <= endOffset THEN startOffset ELSE endOffset)
      b == Max(0, IF startOffset <= endOffset THEN endOffset ELSE startOffset)
  IN SubSeq(src, a + 1, IF b > Len(src) THEN Len(src) ELSE b)

----------------------------------------------------------------------------
(* The parse tree the generated parser returns *)

\* undefined, as the value of ctx.stop or of a child accessor.
Undefined == 0

\* A rule context: its rule, its start and stop tokens (indices into the token
\* stream; stop is Undefined when no token was consumed before the rule was
\* left) and its children.  The runtime sets start to the token ahead when the
\* rule is entered and stop to the last token consumed when it is left, so a
\* context that matched no token has its stop before its start.
Ctx(rule, start, stop, children) ==
  [rule |-> rule, start |-> start, stop |-> stop, children |-> children]

\* A terminal of the parse tree, and a token the parser skipped while it
\* recovered from a syntax error.
Terminal(i) == Ctx("TerminalNode", i, i, <<>>)
ErrorNode(i) == Ctx("ErrorNode", i, i, <<>>)

IsRuleContext(c) == c.rule \notin {"TerminalNode", "ErrorNode"}

\* How the parser leaves a construct it could not parse: "drop" leaves no
\* context for it, "empty" leaves a context that matched nothing.
Recoveries == {"drop", "empty"}

\* simple_stmt : small_stmt (';' small_stmt)* ';'? NEWLINE, from token i on.
SimpleStmt(i, n) ==
  Ctx("simple_stmt", i, i + 2 * n - 1,
      [k \in 1..(2 * n) |->
         IF k % 2 = 1 THEN Ctx("small_stmt", i + k - 1, i + k - 1, <<Terminal(i + k - 1)>>)
         ELSE Terminal(i + k - 1)])

\* The children a statement of the given kind adds to the entry rule's context,
\* its first token being token i, and the number of tokens it takes.
StatementChildren(kind, i, recovery) ==
  CASE kind = "simple" ->
         << Ctx("statement", i, i + 1, <<SimpleStmt(i, 1)>>) >>
    [] kind = "simple2" ->
         << Ctx("statement", i, i + 3, <<SimpleStmt(i, 2)>>) >>
    [] kind = "compound" ->
         << Ctx("statement", i, i + 4,
                << Ctx("compound_stmt", i, i + 4,
                       << Terminal(i), Terminal(i + 1), Terminal(i + 2),
                          SimpleStmt(i + 3, 1) >>) >>) >>
    [] kind = "bad" ->
         IF recovery = "drop" THEN << ErrorNode(i), Terminal(i + 1) >>
         ELSE << Ctx("statement", i, i, <<ErrorNode(i)>>), Terminal(i + 1) >>
    [] kind = "decl" ->
         << Ctx("statement", i, i + 4,
                << Ctx("variableDeclaration", i, i + 4,
                       << Terminal(i),
                          Ctx("variableDeclarator", i + 1, i + 3,
                              << Ctx("identifier", i + 1, i + 1, <<Terminal(i + 1)>>),
                                 Terminal(i + 2),
                                 Ctx("expression", i + 3, i + 3, <<Terminal(i + 3)>>) >>),
                          Terminal(i + 4) >>) >>) >>
    [] kind = "declNoInit" ->
         << Ctx("statement", i, i + 2,
                << Ctx("variableDeclaration", i, i + 2,
                       << Terminal(i),
                          Ctx("variableDeclarator", i + 1, i + 1,
                              << Ctx("identifier", i + 1, i + 1, <<Terminal(i + 1)>>) >>),
                          Terminal(i + 2) >>) >>) >>
    [] kind = "declBad" ->
         << Ctx("statement", i, i + 3,
                << Ctx("variableDeclaration", i, i + 3,
                       << Terminal(i),
                          Ctx("variableDeclarator", i + 1, i + 2,
                              << Ctx("identifier", i + 1, i + 1, <<Terminal(i + 1)>>),
                                 Terminal(i + 2) >>
                              \o (IF recovery = "empty"
                                  THEN << Ctx("expression", i + 3, i + 2, <<>>) >>
                                  ELSE <<>>)),
                          Terminal(i + 3) >>) >>) >>

RECURSIVE EntryChildren(_, _, _)
EntryChildren(prog, i, recovery) ==
  IF prog = <<>> THEN << Terminal(i) >>
  ELSE StatementChildren(Head(prog), i, recovery)
       \o EntryChildren(Tail(prog), i + Len(StmtTexts(Head(prog))), recovery)

\* parser.file_input() / parser.program(): (NEWLINE | statement)* EOF.  The
\* context starts at the first token and stops at the EOF token.
EntryRule(l) == IF l = "python" THEN "file_input" ELSE "program"

ParseTree(l, toks, prog, recovery) ==
  Ctx(EntryRule(l), 1, Len(toks), EntryChildren(prog, 1, recovery))

\* parser.numberOfSyntaxErrors
SyntaxErrors(prog) == Len(SelectSeq(prog, LAMBDA k : k \in Malformed))

\* The statements the parser recognises in the token texts: the grammar's
\* statements begin differently, so the first that fits is the only one.
RECURSIVE Recognised(_, _)
Recognised(l, texts) ==
  IF texts = <<>> THEN <<>>
  ELSE LET kind == CHOOSE k \in Kinds(l) :
                     /\ Len(StmtTexts(k)) <= Len(texts)
                     /\ SubSeq(texts, 1, Len(StmtTexts(k))) = StmtTexts(k)
       IN <<kind>> \o Recognised(l, SubSeq(texts, Len(StmtTexts(kind)) + 1, Len(texts)))

TokenTexts(toks) == [i \in 1..(Len(toks) - 1) |-> toks[i].text]

\* The rule contexts of a parse tree, the tree itself included.
RECURSIVE Contexts(_)
Contexts(c) ==
  (IF IsRuleContext(c) THEN {c} ELSE {})
  \cup UNION { Contexts(c.children[i]) : i \in 1..Len(c.children) }

\* ctx.text: the texts of the tokens of the context's terminals, joined.  The
\* characters the lexer skipped are in no token and so not in it.
RECURSIVE CtxText(_, _)
RECURSIVE CtxTextFrom(_, _, _)
CtxTextFrom(toks, kids, i) ==
  IF i > Len(kids) THEN <<>>
  ELSE CtxText(toks, kids[i]) \o CtxTextFrom(toks, kids, i + 1)

CtxText(toks, c) ==
  IF IsRuleContext(c) THEN CtxTextFrom(toks, c.children, 1) ELSE toks[c.start].text

----------------------------------------------------------------------------
(* Positions *)

\* getLocation: stop = ctx.stop || start; start.offset = start.startIndex,
\* end.offset = stop.stopIndex + 1.  Lines and columns are left out.
getLocationStopOnly(toks, ctx) ==
  LET start == toks[ctx.start]
      stop  == IF ctx.stop # Undefined THEN toks[ctx.stop] ELSE start
  IN [start |-> [offset |-> start.startIndex], end |-> [offset |-> stop.stopIndex]]

getLocation(toks, ctx) ==
  LET start == toks[ctx.start]
      stop  == IF ctx.stop # Undefined THEN toks[ctx.stop] ELSE start
  IN [start |-> [offset |-> start.startIndex], end |-> [offset |-> stop.stopIndex + 1]]

\* getPosition: startOffset is the index of the first token, endOffset the
\* start index of the last token plus the length of its text; the stop token
\* defaults to the start token.
getPosition(toks, ctx) ==
  LET start == toks[ctx.start]
      stop  == IF ctx.stop # Undefined THEN toks[ctx.stop] ELSE start
  IN Position(start.startIndex, stop.startIndex + Len(stop.text))

----------------------------------------------------------------------------
(* The visitors *)

\* The fields a node has.
Has(n, field) == field \in DOMAIN n

\* null, as a visit method returns it.
NullNode == [null |-> TRUE]

\* Array.prototype.filter(Boolean): null results are dropped.
FilterBoolean(nodes) == SelectSeq(nodes, LAMBDA n : n # NullNode)

\* ctx.statement(), ctx.small_stmt(), ...: the child contexts of one rule.
ChildContexts(ctx, rule) == SelectSeq(ctx.children, LAMBDA c : c.rule = rule)

\* ctx.simple_stmt(), ctx.expression(), ...: whether there is such a child.
HasChild(ctx, rule) == ChildContexts(ctx, rule) # <<>>

defaultResult == [type |-> "Unknown"]

\* The Python visitor.  A rule without a visit method is visited by
\* visitChildren, which returns the result of the last child, or
\* defaultResult() when there is none; a terminal gives defaultResult().
RECURSIVE visitPython(_, _)
visitSimple_stmt(toks, ctx) ==
  LET small_stmts == ChildContexts(ctx, "small_stmt")
  IN IF Len(small_stmts) = 1 THEN visitPython(toks, small_stmts[1])
     ELSE [type |-> "BlockStatement",
           body |-> [i \in 1..Len(small_stmts) |-> visitPython(toks, small_stmts[i])],
           loc  |-> getLocation(toks, ctx)]

visitStatement(toks, ctx) ==
  IF HasChild(ctx, "simple_stmt")
    THEN visitPython(toks, ChildContexts(ctx, "simple_stmt")[1])
  ELSE IF HasChild(ctx, "compound_stmt")
    THEN visitPython(toks, ChildContexts(ctx, "compound_stmt")[1])
  ELSE NullNode

\* visitFile_input without the .filter(Boolean).
visitFile_inputNoFilter(toks, ctx) ==
  LET stmts == ChildContexts(ctx, "statement")
  IN [type |-> "Program",
      body |-> [i \in 1..Len(stmts) |-> visitPython(toks, stmts[i])],
      loc  |-> getLocation(toks, ctx)]

visitFile_input(toks, ctx) ==
  LET stmts == ChildContexts(ctx, "statement")
      statements == FilterBoolean([i \in 1..Len(stmts) |-> visitPython(toks, stmts[i])])
  IN [type |-> "Program", body |-> statements, loc |-> getLocation(toks, ctx)]

visitPython(toks, ctx) ==
  CASE ctx.rule = "file_input"  -> visitFile_input(toks, ctx)
    [] ctx.rule = "statement"   -> visitStatement(toks, ctx)
    [] ctx.rule = "simple_stmt" -> visitSimple_stmt(toks, ctx)
    [] OTHER -> IF IsRuleContext(ctx) /\ ctx.children # <<>>
                THEN visitPython(toks, ctx.children[Len(ctx.children)])
                ELSE defaultResult

\* The JavaScript visitor.
visitIdentifier(toks, ctx) ==
  [type |-> "Identifier", name |-> CtxText(toks, ctx), loc |-> getLocation(toks, ctx)]

visitExpression(toks, ctx) ==
  IF ctx.children = <<>> THEN defaultResult
  ELSE [type |-> "Literal", raw |-> CtxText(toks, ctx), loc |-> getLocation(toks, ctx)]

visitVariableDeclarator(toks, ctx) ==
  [type |-> "VariableDeclarator",
   id   |-> visitIdentifier(toks, ChildContexts(ctx, "identifier")[1]),
   init |-> IF HasChild(ctx, "expression")
            THEN visitExpression(toks, ChildContexts(ctx, "expression")[1])
            ELSE NullNode,
   loc  |-> getLocation(toks, ctx)]

visitVariableDeclaration(toks, ctx) ==
  LET ds == ChildContexts(ctx, "variableDeclarator")
  IN [type |-> "VariableDeclaration",
      declarations |-> [i \in 1..Len(ds) |-> visitVariableDeclarator(toks, ds[i])],
      kind |-> toks[ctx.children[1].start].text,
      loc  |-> getLocation(toks, ctx)]

\* visit(stmt) of a statement context: the visitor has no visitStatement, so
\* the result is that of its last child.
visitJsStatement(toks, ctx) ==
  LET last == ctx.children[Len(ctx.children)]
  IN IF last.rule = "variableDeclaration" THEN visitVariableDeclaration(toks, last)
     ELSE defaultResult

visitProgram(toks, ctx) ==
  LET stmts == ChildContexts(ctx, "statement")
  IN [type |-> "Program",
      body |-> [i \in 1..Len(stmts) |-> visitJsStatement(toks, stmts[i])],
      loc  |-> getLocation(toks, ctx)]

\* The visitor that builds CstNodes: text is ctx.text, position is
\* getPosition(ctx); the child nodes are not spelled out.
visitVariableDeclarationCst(toks, ctx) ==
  [type |-> "VariableDeclaration",
   text |-> CtxText(toks, ctx),
   position |-> getPosition(toks, ctx),
   children |-> <<>>]

visitStatementCst(toks, ctx) ==
  IF HasChild(ctx, "variableDeclaration")
  THEN visitVariableDeclarationCst(toks, ChildContexts(ctx, "variableDeclaration")[1])
  ELSE NullNode

----------------------------------------------------------------------------
(* The calls *)

\* No parse is under way.
ParseIdle ==
  /\ lang = "none"
  /\ source = <<>>
  /\ tokens = <<>>
  /\ tree = [rule |-> "none"]
  /\ errors = 0
  /\ ast = [type |-> "none"]
  /\ pc = "idle"

\* No concurrent calls of parse.
CallsIdle ==
  /\ parser = "none"
  /\ call = <<>>

Init ==
  /\ \E n \in 1..MaxNodes : \E p \in Shapes(n) :
       \E ty \in [1..n -> Types] : \E d \in Defineds(n, p) :
         heap = TreeHeap(n, p, ty, d)
  /\ input = heap
  /\ root = 1
  /\ op = "none"
  /\ arg = {}
  /\ calls = <<>>
  /\ result = Null
  /\ results = <<>>
  /\ ParseIdle
  /\ CallsIdle

Traverse ==
  /\ op = "none"
  /\ op' = "traverse"
  /\ calls' = traverse(heap, root)
  /\ UNCHANGED <<heap, input, root, arg, result, results, parseVars, callVars>>

FindNodesByType ==
  /\ op = "none"
  /\ \E type \in Types :
       /\ arg' = {type}
       /\ results' = findNodesByType(heap, root, type)
  /\ op' = "findNodesByType"
  /\ calls' = traverse(heap, root)
  /\ UNCHANGED <<heap, input, root, result, parseVars, callVars>>

FindFirst ==
  /\ op = "none"
  /\ \E P \in Predicates :
       LET r == findFirst(heap, root, P)
       IN /\ arg' = P
          /\ result' = r.found
          /\ calls' = r.evals
  /\ op' = "findFirst"
  /\ UNCHANGED <<heap, input, root, results, parseVars, callVars>>

FilterNodes ==
  /\ op = "none"
  /\ \E P \in Predicates :
       LET r == filterNodes(heap, root, P)
       IN /\ arg' = P
          /\ heap' = r.heap
          /\ result' = r.result
          /\ calls' = r.evals
  /\ op' = "filterNodes"
  /\ UNCHANGED <<input, root, results, parseVars, callVars>>

TransformNode ==
  /\ op = "none"
  /\ \E T \in Transformers :
       LET r == transformNode(heap, root, T)
       IN /\ arg' = {T}
          /\ heap' = r.heap
          /\ result' = r.result
          /\ calls' = r.calls
  /\ op' = "transformNode"
  /\ UNCHANGED <<input, root, results, parseVars, callVars>>

Next == Traverse \/ FindNodesByType \/ FindFirst \/ FilterNodes \/ TransformNode

Spec == Init /\ [][Next]_vars

----------------------------------------------------------------------------
(* parse *)

Languages == {"python", "javascript", "ecmascript"}

\* The source texts parse is called with: up to MaxStatements statements of
\* the language (the JavaScript grammar wants one at least), with up to MaxGap
\* blanks around the tokens.
Sources(l) ==
  { Render(prog, gap) :
      prog \in UNION { [1..n -> Kinds(l)] :
                         n \in (IF l = "python" THEN 0 ELSE 1)..MaxStatements },
      gap \in 0..MaxGap }

\* No tree operation is under way.
TreeIdle ==
  /\ heap = <<>>
  /\ input = <<>>
  /\ root = Null
  /\ op = "parse"
  /\ arg = {}
  /\ calls = <<>>
  /\ result = Null
  /\ results = <<>>

\* parse(code) is called.
InitParse ==
  /\ TreeIdle
  /\ CallsIdle
  /\ lang \in Languages
  /\ source \in Sources(lang)
  /\ tokens = <<>>
  /\ tree = [rule |-> "none"]
  /\ errors = 0
  /\ ast = [type |-> "none"]
  /\ pc = "called"

\* The lexer and the token stream over the input stream.
Tokenize ==
  /\ pc = "called"
  /\ tokens' = Lexer(source)
  /\ pc' = "lexed"
  /\ UNCHANGED <<treeVars, callVars, lang, source, tree, errors, ast>>

\* parser.file_input(): the parser reports syntax errors to its listeners,
\* recovers and returns a tree whatever the input.
Parse ==
  /\ pc = "lexed"
  /\ LET prog == Recognised(lang, TokenTexts(tokens))
     IN /\ \E recovery \in Recoveries : tree' = ParseTree(lang, tokens, prog, recovery)
        /\ errors' = SyntaxErrors(prog)
  /\ pc' = "parsed"
  /\ UNCHANGED <<treeVars, callVars, lang, source, tokens, ast>>

\* visitor.visit(tree)
Visit ==
  /\ pc = "parsed"
  /\ lang \in {"python", "javascript"}
  /\ ast' = IF lang = "python" THEN visitFile_input(tokens, tree)
            ELSE visitProgram(tokens, tree)
  /\ pc' = "visited"
  /\ UNCHANGED <<treeVars, callVars, lang, source, tokens, tree, errors>>

\* The CstNode visitor visits a statement of the tree.
VisitStatement ==
  /\ pc = "parsed"
  /\ lang = "ecmascript"
  /\ \E ctx \in { c \in Contexts(tree) : c.rule = "statement" } :
       ast' = visitStatementCst(tokens, ctx)
  /\ pc' = "visited"
  /\ UNCHANGED <<treeVars, callVars, lang, source, tokens, tree, errors>>

\* return ast
Return ==
  /\ pc = "visited"
  /\ lang \in {"python", "javascript"}
  /\ pc' = "returned"
  /\ UNCHANGED <<treeVars, callVars, lang, source, tokens, tree, errors, ast>>

NextParse == Tokenize \/ Parse \/ Visit \/ VisitStatement \/ Return

SpecParse == InitParse /\ [][NextParse]_vars

----------------------------------------------------------------------------
(* Several calls of parse *)

\* The calls of parse that are under way together.
Calls == {"a", "b"}

\* The source texts of these calls: up to MaxStatements statements, MaxGap
\* blanks around the tokens.
CallSources(l) ==
  { Render(prog, MaxGap) :
      prog \in UNION { [1..n -> Kinds(l)] :
                         n \in (IF l = "python" THEN 0 ELSE 1)..MaxStatements } }

\* traverse(node, callback) over a tree of nested nodes: the nodes the
\* callback is called on, in call order.
RECURSIVE traverseNode(_)
RECURSIVE traverseNodes(_, _)
traverseNodes(children, i) ==
  IF i > Len(children) THEN <<>>
  ELSE traverseNode(children[i]) \o traverseNodes(children, i + 1)

traverseNode(node) ==
  <<node>> \o (IF Has(node, "children") THEN traverseNodes(node.children, 1) ELSE <<>>)

\* The value visitor.visit(tree) of a call of parse.
visit(l, toks, t) ==
  IF l = "python" THEN visitFile_input(toks, t) ELSE visitProgram(toks, t)

\* parse(code) is called: its locals.
Called(code) ==
  [code |-> code, tokens |-> <<>>, tree |-> [rule |-> "none"],
   ast |-> [type |-> "none"], visited |-> <<>>, pc |-> "called"]

\* A module-level token stream: the call that fills it replaces the tokens of
\* a call that has filled it and not yet run its parser.
tokenStreamShared(cs, c) ==
  [d \in DOMAIN cs |->
     IF d = c THEN [cs[d] EXCEPT !.tokens = Lexer(cs[c].code), !.pc = "lexed"]
     ELSE IF cs[d].pc = "lexed" THEN [cs[d] EXCEPT !.tokens = Lexer(cs[c].code)]
     ELSE cs[d]]

\* new CommonTokenStream(new PythonLexer(CharStreams.fromString(code))): the
\* stream is a local of the call.
tokenStream(cs, c) ==
  [cs EXCEPT ![c].tokens = Lexer(cs[c].code), ![c].pc = "lexed"]

\* A module-level visitor that keeps the statements of the calls before.
visitorKept(cs, c, l) ==
  LET own == visit(l, cs[c].tokens, cs[c].tree)
      d == CHOOSE d \in DOMAIN cs : d # c
      before == IF cs[d].pc \in {"visited", "returned", "traversed"}
                THEN cs[d].ast.body ELSE <<>>
  IN [cs EXCEPT ![c].ast = [own EXCEPT !.body = before \o own.body],
                ![c].pc = "visited"]

\* const visitor = new AstBuilderVisitor(); const ast = visitor.visit(tree)
visitor(cs, c, l) ==
  [cs EXCEPT ![c].ast = visit(l, cs[c].tokens, cs[c].tree), ![c].pc = "visited"]

InitCalls ==
  /\ TreeIdle
  /\ lang \in {"python", "javascript"}
  /\ source = <<>>
  /\ tokens = <<>>
  /\ tree = [rule |-> "none"]
  /\ errors = 0
  /\ ast = [type |-> "none"]
  /\ pc = "calls"
  /\ parser \in Recoveries
  /\ \E codes \in [Calls -> CallSources(lang)] :
       call = [c \in Calls |-> Called(codes[c])]

CallTokenize(c) ==
  /\ call[c].pc = "called"
  /\ call' = tokenStream(call, c)
  /\ UNCHANGED <<treeVars, parseVars, parser>>

CallParse(c) ==
  /\ call[c].pc = "lexed"
  /\ call' = [call EXCEPT
       ![c].tree = ParseTree(lang, call[c].tokens,
                             Recognised(lang, TokenTexts(call[c].tokens)), parser),
       ![c].pc = "parsed"]
  /\ UNCHANGED <<treeVars, parseVars, parser>>

CallVisit(c) ==
  /\ call[c].pc = "parsed"
  /\ call' = visitor(call, c, lang)
  /\ UNCHANGED <<treeVars, parseVars, parser>>

CallReturn(c) ==
  /\ call[c].pc = "visited"
  /\ call' = [call EXCEPT ![c].pc = "returned"]
  /\ UNCHANGED <<treeVars, parseVars, parser>>

\* A read-only traversal of the tree the call returned.
CallTraverse(c) ==
  /\ call[c].pc = "returned"
  /\ call' = [call EXCEPT ![c].visited = traverseNode(call[c].ast),
                          ![c].pc = "traversed"]
  /\ UNCHANGED <<treeVars, parseVars, parser>>

NextCalls ==
  \E c \in Calls :
    CallTokenize(c) \/ CallParse(c) \/ CallVisit(c) \/ CallReturn(c) \/ CallTraverse(c)

SpecCalls == InitCalls /\ [][NextCalls]_vars

----------------------------------------------------------------------------
(* The documented utilities over a parsed tree *)

\* The variable names of the trees.
Names == {"x", "y"}

Ident(name, at) ==
  [type |-> "Identifier", text |-> name, name |-> name, position |-> Position(at, at + 1)]

\* The statements of the trees: `const <name>;`, whose declarator holds its id
\* among its children ("declId") or only as the field id ("decl"), and the
\* expression statement `<name>;` ("ref").
UseKinds == {"decl", "declId", "ref"}

StatementNode(kind, name, at) ==
  IF kind = "ref"
  THEN [type |-> "ExpressionStatement", text |-> name, position |-> Position(at, at + 2),
        children |-> << Ident(name, at) >>]
  ELSE LET declarator ==
             [type |-> "VariableDeclarator", text |-> name,
              position |-> Position(at + 6, at + 7),
              id |-> Ident(name, at + 6),
              children |-> IF kind = "declId" THEN << Ident(name, at + 6) >> ELSE <<>>]
       IN [type |-> "VariableDeclaration", text |-> name, kind |-> "const",
           position |-> Position(at, at + 8),
           declarations |-> << declarator >>, children |-> << declarator >>]

\* A Program that holds its statements as children, as body, or as both;
\* statement i starts at offset 10 * i.
ProgramNode(kinds, names, fields) ==
  LET stmts == [i \in 1..Len(kinds) |-> StatementNode(kinds[i], names[i], 10 * i)]
      base == [type |-> "Program", text |-> "program",
               position |-> Position(0, 10 * (Len(kinds) + 1))]
  IN CASE fields = "children" -> base @@ [children |-> stmts]
       [] fields = "body"     -> base @@ [body |-> stmts]
       [] fields = "both"     -> base @@ [children |-> stmts, body |-> stmts]

\* A node whose type is the empty string.
UntypedNode == [type |-> "", text |-> "", position |-> Position(0, 0)]

\* The identifier tokens of a token stream: the words that are no keyword.
Keywords == { <<"c","o","n","s","t">>, <<"p","a","s","s">>, <<"i","f">> }

IdentifierTokens(toks) ==
  LET ids == SelectSeq(toks, LAMBDA t : t.type = "WORD" /\ t.text \notin Keywords
                                        /\ t.text[1] \notin {"4", "2"})
  IN [i \in 1..Len(ids) |-> ids[i].text]

\* function extractIdentifiers(node): the text of the Identifier nodes reached
\* through children, in pre-order.
extractIdentifiers(node) ==
  LET ns  == traverseNode(node)
      ids == SelectSeq(ns, LAMBDA n : n.type = "Identifier")
  IN [i \in 1..Len(ids) |-> IF Has(ids[i], "text") THEN ids[i].text ELSE "undefined"]

\* node.type.endsWith('Statement') || node.type.endsWith('Declaration')
EndsWithStatementOrDeclaration(type) ==
  type \in {"ExpressionStatement", "BlockStatement", "VariableDeclaration"}

\* function countStatements(ast)
countStatements(node) ==
  Len(SelectSeq(traverseNode(node), LAMBDA n : EndsWithStatementOrDeclaration(n.type)))

\* class MyVisitor.  visit(node) calls the method visit<node.type> when the
\* visitor has one, then visits node.children.  The value is the log of the
\* handlers called, [method, node], and whether the call threw:
\*   - visitProgram reads node.body.length: a TypeError when body is undefined;
\*   - for the type '' the method name is 'visit', which the visitor has, so
\*     visit calls itself on the same node until the stack is exhausted.
RECURSIVE MyVisitor_visit(_)
RECURSIVE MyVisitor_visitAll(_, _)
MyVisitor_visitAll(nodes, i) ==
  IF i > Len(nodes) THEN [log |-> <<>>, threw |-> FALSE]
  ELSE LET first == MyVisitor_visit(nodes[i])
       IN IF first.threw THEN first
          ELSE LET rest == MyVisitor_visitAll(nodes, i + 1)
               IN [log |-> first.log \o rest.log, threw |-> rest.threw]

MyVisitor_visitProgram(node) ==
  IF ~Has(node, "body") THEN [log |-> <<[method |-> "visitProgram", node |-> node]>>,
                              threw |-> TRUE]
  ELSE LET stmts == MyVisitor_visitAll(node.body, 1)
       IN [log |-> <<[method |-> "visitProgram", node |-> node]>> \o stmts.log,
           threw |-> stmts.threw]

MyVisitor_visitVariableDeclaration(node) ==
  [log |-> <<[method |-> "visitVariableDeclaration", node |-> node]>>, threw |-> FALSE]

MyVisitor_visit(node) ==
  IF node.type = "" THEN [log |-> <<>>, threw |-> TRUE]
  ELSE LET handler ==
             IF node.type = "Program" THEN MyVisitor_visitProgram(node)
             ELSE IF node.type = "VariableDeclaration"
               THEN MyVisitor_visitVariableDeclaration(node)
             ELSE [log |-> <<>>, threw |-> FALSE]
       IN IF handler.threw THEN handler
          ELSE IF Has(node, "children")
          THEN LET kids == MyVisitor_visitAll(node.children, 1)
               IN [log |-> handler.log \o kids.log, threw |-> kids.threw]
          ELSE handler

\* function findUnusedVariables(ast): declared and used are Sets filled by
\* one traverse; the value is the declared names that are not in used, in the
\* order they were declared.
RECURSIVE Declared(_, _)
Declared(ns, i) ==
  IF i > Len(ns) THEN <<>>
  ELSE LET rest == Declared(ns, i + 1)
           node == ns[i]
       IN IF node.type = "VariableDeclarator" /\ Has(node, "id")
             /\ node.id # NullNode /\ node.id.type = "Identifier"
          THEN <<node.id.name>> \o SelectSeq(rest, LAMBDA name : name # node.id.name)
          ELSE rest

Used(ns) ==
  { ns[i].text : i \in { j \in 1..Len(ns) :
                           ns[j].type = "Identifier" /\ Has(ns[j], "text") } }

findUnusedVariables(node) ==
  LET ns == traverseNode(node)
  IN SelectSeq(Declared(ns, 1), LAMBDA name : name \notin Used(ns))

\* The trees the utilities are called on are Programs of up to MaxStatements
\* statements, the node without a type, and the trees the JavaScript visitor
\* builds; tokens holds the identifier tokens of the text, in source order.
UseIdle ==
  /\ heap = <<>>
  /\ input = <<>>
  /\ root = Null
  /\ arg = {}
  /\ op = "none"
  /\ calls = <<>>
  /\ result = Null
  /\ results = <<>>
  /\ tree = [rule |-> "none"]
  /\ errors = 0
  /\ pc = "use"
  /\ CallsIdle

InitUse ==
  /\ UseIdle
  /\ \/ /\ lang = "none"
        /\ source = <<>>
        /\ \E n \in 0..MaxStatements :
             \E kinds \in [1..n -> UseKinds] : \E names \in [1..n -> Names] :
               \E fields \in {"children", "body", "both"} :
                 /\ ast = ProgramNode(kinds, names, fields)
                 /\ tokens = names
     \/ /\ lang = "none"
        /\ source = <<>>
        /\ ast = UntypedNode
        /\ tokens = <<>>
     \/ /\ lang = "javascript"
        /\ source \in CallSources(lang)
        /\ tokens = IdentifierTokens(Lexer(source))
        /\ \E recovery \in Recoveries :
             LET toks == Lexer(source)
             IN ast = visit(lang, toks,
                            ParseTree(lang, toks, Recognised(lang, TokenTexts(toks)), recovery))

ExtractIdentifiers ==
  /\ op = "none"
  /\ op' = "extractIdentifiers"
  /\ results' = extractIdentifiers(ast)
  /\ UNCHANGED <<heap, input, root, arg, calls, result, parseVars, callVars>>

CountStatements ==
  /\ op = "none"
  /\ op' = "countStatements"
  /\ result' = countStatements(ast)
  /\ UNCHANGED <<heap, input, root, arg, calls, results, parseVars, callVars>>

\* visitor.visit(ast): arg tells whether the call threw.
MyVisitorVisit ==
  /\ op = "none"
  /\ op' = "visit"
  /\ calls' = MyVisitor_visit(ast).log
  /\ arg' = IF MyVisitor_visit(ast).threw THEN {"threw"} ELSE {}
  /\ UNCHANGED <<heap, input, root, result, results, parseVars, callVars>>

FindUnusedVariables ==
  /\ op = "none"
  /\ op' = "findUnusedVariables"
  /\ results' = findUnusedVariables(ast)
  /\ UNCHANGED <<heap, input, root, arg, calls, result, parseVars, callVars>>

NextUse == ExtractIdentifiers \/ CountStatements \/ MyVisitorVisit \/ FindUnusedVariables

SpecUse == InitUse /\ [][NextUse]_vars

----------------------------------------------------------------------------
(* What the properties speak of: the tree as a relation, its deep value *)

Range(s) == { s[i] : i \in 1..Len(s) }

\* The index of x in a sequence that holds it.
Pos(s, x) == CHOOSE i \in 1..Len(s) : s[i] = x

NoDuplicates(s) == \A i, j \in 1..Len(s) : s[i] = s[j] => i = j

\* The nodes reachable from a through `children`, a included.
RECURSIVE Descendants(_, _)
Descendants(h, a) ==
  {a} \cup UNION { Descendants(h, h[a].children[i]) : i \in 1..Len(h[a].children) }

ProperDescendants(h, a) == Descendants(h, a) \ {a}

\* The nodes of the tree under r on the path from r to a, a included.
Ancestors(h, r, a) == { b \in Descendants(h, r) : a \in Descendants(h, b) }

\* The deep value of the tree at a: what deep equality compares.
RECURSIVE Value(_, _)
Value(h, a) ==
  [type |-> h[a].type, text |-> h[a].text, position |-> h[a].position,
   defined |-> h[a].defined,
   children |-> [i \in 1..Len(h[a].children) |-> Value(h, h[a].children[i])]]

\* The fields of one node other than its children.
Own(node) == [type |-> node.type, text |-> node.text, position |-> node.position]

\* The nodes of the input tree.
InputNodes == Descendants(input, root)

\* The input nodes that pass P together with all their ancestors.
Kept(P) == { a \in InputNodes : \A b \in Ancestors(input, root, a) : predicate(P, input[b]) }

\* The deep value of the input tree at a with every child outside K left out
\* (a node's own fields and the order of its remaining children kept).
RECURSIVE Pruned(_, _)
Pruned(a, K) ==
  LET kids == SelectSeq(input[a].children, LAMBDA c : c \in K)
  IN [type |-> input[a].type, text |-> input[a].text, position |-> input[a].position,
      defined |-> input[a].defined,
      children |-> [i \in 1..Len(kids) |-> Pruned(kids[i], K)]]

----------------------------------------------------------------------------
(* Claims *)

\* C1: traverse calls the callback exactly once on every node reachable through
\* children, a node before each of its descendants, and the whole subtree of
\* children[i] before anything of children[i+1].
C1_TraversePreOrder ==
  op = "traverse" =>
    /\ Range(calls) = InputNodes
    /\ NoDuplicates(calls)
    /\ \A a \in InputNodes : \A d \in ProperDescendants(heap, a) :
         Pos(calls, a) < Pos(calls, d)
    /\ \A a \in InputNodes : \A i \in 1..(Len(heap[a].children) - 1) :
         \A x \in Descendants(heap, heap[a].children[i]) :
           \A y \in Descendants(heap, heap[a].children[i + 1]) :
             Pos(calls, x) < Pos(calls, y)

\* A traversal of a root with two children, the first of which has a child of
\* its own: the document order differs from the address order.
C1_Witness ==
  /\ op = "traverse"
  /\ Len(heap[root].children) = 2
  /\ hasChildren(heap[heap[root].children[1]])
  /\ calls = <<1, 2, 4, 3>>

\* C2: findFirst returns the first node in pre-order that satisfies the predicate
\* (the head of the find-all sequence), and null when no node satisfies it.
C2_FindFirstIsHeadOfFindAll ==
  op = "findFirst" =>
    LET all == SelectSeq(traverse(heap, root), LAMBDA n : predicate(arg, heap[n]))
    IN result = IF all = <<>> THEN Null ELSE Head(all)

\* A search that finds a node below the root while a later node matches too.
C2_Witness ==
  /\ op = "findFirst"
  /\ result \notin {Null, root}
  /\ \E a \in InputNodes : a # result /\ predicate(arg, heap[a])

\* C3: findFirst short-circuits: the predicate is evaluated on the nodes that
\* precede the match in pre-order and on the match, and on no other node.
C3_FindFirstShortCircuits ==
  (op = "findFirst" /\ result # Null) =>
    /\ calls = SubSeq(traverse(heap, root), 1, Pos(traverse(heap, root), result))
    /\ \A d \in ProperDescendants(heap, result) : d \notin Range(calls)
    /\ calls[Len(calls)] = result

\* A match below the root that has a child and a later sibling: the predicate
\* was evaluated on the root and on the match, and on neither of the other two.
C3_Witness ==
  /\ op = "findFirst"
  /\ result \notin {Null, root}
  /\ hasChildren(heap[result])
  /\ \E a \in InputNodes : a \notin Range(calls) /\ a \notin Descendants(heap, result)
  /\ Len(calls) = 2

\* C4: findNodesByType returns exactly the nodes of the given type, each once,
\* in the order in which the traversal meets them.
C4_FindNodesByType ==
  op = "findNodesByType" =>
    /\ Range(results) = { a \in InputNodes : {heap[a].type} = arg }
    /\ NoDuplicates(results)
    /\ \A i, j \in 1..Len(results) :
         i < j => Pos(calls, results[i]) < Pos(calls, results[j])

\* Two matches whose document order is the reverse of their address order, in
\* a tree that also holds a node of another type.
C4_Witness ==
  /\ op = "findNodesByType"
  /\ Len(results) = 2
  /\ results[1] > results[2]
  /\ Len(heap) > 2

\* C5: filterNodes(t, always-true) is deep-equal to t.
C5_FilterAlwaysTrueIsIdentity ==
  (op = "filterNodes" /\ arg = Types) =>
    /\ result # Null
    /\ Value(heap, result) = Value(input, root)

\* An always-true filter of a tree that holds a Token and a node whose children
\* is the empty array.
C5_Witness ==
  /\ op = "filterNodes"
  /\ arg = Types
  /\ result # Null
  /\ \E a, b \in InputNodes :
       /\ isToken(input[a])
       /\ ~isToken(input[b]) /\ ~hasChildren(input[b])

\* C6: when the root fails the predicate filterNodes returns null, never a node
\* with an empty children array.
C6_FilterRootFailsIsNull ==
  (op = "filterNodes" /\ ~predicate(arg, input[root])) => result = Null

\* A filter whose predicate the root fails while a descendant passes it.
C6_Witness ==
  /\ op = "filterNodes"
  /\ ~predicate(arg, input[root])
  /\ \E a \in InputNodes : predicate(arg, input[a])
  /\ result = Null

\* C7: when the root passes and has children that all fail, filterNodes returns
\* a node equal to the root in type, text and position whose children is the
\* empty array: neither null nor a Token.
C7_FilterKeepsRootWithEmptyChildren ==
  ( /\ op = "filterNodes"
    /\ predicate(arg, input[root])
    /\ hasChildren(input[root])
    /\ \A i \in 1..Len(input[root].children) :
         ~predicate(arg, input[input[root].children[i]]) ) =>
    /\ result # Null
    /\ Own(heap[result]) = Own(input[root])
    /\ heap[result].children = <<>>
    /\ ~isToken(heap[result])
    /\ ~hasChildren(heap[result])

\* A root that passes and whose two children both fail.
C7_Witness ==
  /\ op = "filterNodes"
  /\ predicate(arg, input[root])
  /\ Len(input[root].children) = 2
  /\ \A i \in 1..2 : ~predicate(arg, input[input[root].children[i]])
  /\ result # Null

\* C8: filterNodes prunes whole subtrees: the result holds exactly the input
\* nodes that pass the predicate together with all their ancestors, the
\* survivors under each node in their input order.
C8_FilterPrunesSubtrees ==
  op = "filterNodes" =>
    IF predicate(arg, input[root])
    THEN result # Null /\ Value(heap, result) = Pruned(root, Kept(arg))
    ELSE result = Null

\* A passing node below a failing one is pruned, next to a sibling that survives.
C8_Witness ==
  /\ op = "filterNodes"
  /\ result # Null
  /\ Len(heap[result].children) = 1
  /\ \E a \in InputNodes : predicate(arg, input[a]) /\ a \notin Kept(arg)

\* C9: with the documented 'keep only identifiers' predicate on a Program-rooted
\* tree, every Identifier node of the input is present in the result.
C9_FilterKeepsEveryIdentifier ==
  ( /\ op = "filterNodes"
    /\ arg = {"Program", "Identifier"}
    /\ input[root].type = "Program" ) =>
    /\ result # Null
    /\ \A a \in InputNodes :
         input[a].type = "Identifier" =>
           \E b \in Descendants(heap, result) : Own(heap[b]) = Own(input[a])

\* C10: filterNodes and transformNode leave every node of their argument as it
\* was: type, text, position and children sequence.
C10_InputNotMutated ==
  op \in {"filterNodes", "transformNode"} =>
    /\ \A a \in DOMAIN input : heap[a] = input[a]
    /\ Value(heap, root) = Value(input, root)

\* A filter that dropped a child, and a transform that renamed an identifier:
\* both built new objects.
C10_Witness ==
  \/ /\ op = "filterNodes"
     /\ result # Null
     /\ Len(heap[result].children) < Len(input[root].children)
     /\ Len(heap) > Len(input)
  \/ /\ op = "transformNode"
     /\ arg = {"rename"}
     /\ Value(heap, result) # Value(input, root)

\* C11 as stated: the tree returned by filterNodes, and by transformNode with the
\* identity transformer, holds no node that is the same object as a node of the
\* input tree, leaves included.
C11_NoNodeShared ==
  ( /\ op = "filterNodes" \/ (op = "transformNode" /\ arg = {"identity"})
    /\ result # Null ) =>
    Descendants(heap, result) \cap InputNodes = {}

\* C11 as amended: every node of the result that carries a children array is a
\* new object, and the nodes the result shares with the input are exactly its
\* Tokens (children undefined), which are returned as they are.
C11_OnlyTokensShared ==
  ( /\ op = "filterNodes" \/ (op = "transformNode" /\ arg = {"identity"})
    /\ result # Null ) =>
    \A b \in Descendants(heap, result) :
      /\ b \in InputNodes <=> isToken(heap[b])
      /\ b \in InputNodes \/ b > Len(input)

\* A filter result whose root is a new object with a surviving child that has
\* children of its own (new as well) and a Token below it (shared).
C11_Witness ==
  /\ op = "filterNodes"
  /\ result # Null
  /\ result > Len(input)
  /\ \E b \in Descendants(heap, result) : b # result /\ hasChildren(heap[b]) /\ b > Len(input)
  /\ \E b \in Descendants(heap, result) : isToken(heap[b]) /\ b \in InputNodes

\* The children of the node the transformer returns for input node a.
TransformedChildren(T, a) ==
  LET transformed == transformer(T, input, a)
  IN transformed.heap[transformed.node].children

\* The input node a result node was made from: position is unique per input
\* node and no transformer changes it.
Origin(b) == CHOOSE a \in InputNodes : input[a].position = heap[b].position

\* C12: transformNode applies the transformer to a node before it applies it to
\* any child of that node, handles children left to right, and keeps in the
\* result the order the children have in the transformed parent.
C12_TransformTopDownLeftToRight ==
  op = "transformNode" =>
    LET T == CHOOSE t \in arg : TRUE
    IN /\ NoDuplicates(calls)
       /\ root \in Range(calls)
       /\ \A a \in Range(calls) :
            LET kids == TransformedChildren(T, a)
            IN /\ \A i \in 1..Len(kids) :
                    kids[i] \in Range(calls) /\ Pos(calls, a) < Pos(calls, kids[i])
               /\ \A i, j \in 1..Len(kids) : i < j =>
                    \A x \in Descendants(input, kids[i]) \cap Range(calls) :
                      Pos(calls, x) < Pos(calls, kids[j])
       /\ \A b \in Descendants(heap, result) :
            LET kids == TransformedChildren(T, Origin(b))
            IN [i \in 1..Len(heap[b].children) |-> heap[heap[b].children[i]].position]
               = [i \in 1..Len(kids) |-> input[kids[i]].position]

\* A rename of a root with two children, the first of which has a child: the
\* call order differs from the address order.
C12_Witness ==
  /\ op = "transformNode"
  /\ arg = {"rename"}
  /\ calls = <<1, 2, 4, 3>>
  /\ \E a \in InputNodes : input[a].type = "Identifier"

----------------------------------------------------------------------------
(* Properties of parse and of the trees the visitors build *)

\* The child sequence of a node: its children, body or declarations, and for
\* a declarator its id and its init.
ChildSeq(n) ==
  IF Has(n, "children") THEN n.children
  ELSE IF Has(n, "body") THEN n.body
  ELSE IF Has(n, "declarations") THEN n.declarations
  ELSE IF Has(n, "id") THEN <<n.id, n.init>>
  ELSE <<>>

\* The nodes of a produced tree, null placeholders left out.
RECURSIVE NodesOf(_)
NodesOf(n) ==
  IF n = NullNode THEN {}
  ELSE {n} \cup UNION { NodesOf(ChildSeq(n)[i]) : i \in 1..Len(ChildSeq(n)) }

\* The span of a node: its position, or the offsets of its loc.
Span(n) ==
  IF Has(n, "position") THEN n.position
  ELSE Position(n.loc.start.offset, n.loc.end.offset)

Produced == pc \in {"visited", "returned"}

\* C13: round-trip position law: for every node the visitor built with a text
\* and a position, the substring of the source between the position's offsets
\* is the node's text, blanks between the tokens included.
C13_RoundTripPosition ==
  Produced =>
    \A n \in NodesOf(ast) :
      (Has(n, "text") /\ Has(n, "position")) =>
        substring(source, n.position.startOffset, n.position.endOffset) = n.text

HasSpan(n) == Has(n, "position") \/ Has(n, "loc")

\* The nodes among the child sequence of a node.
Kids(n) == FilterBoolean(ChildSeq(n))

\* C14: span-coverage law: every composite node starts where its first child
\* starts and ends where its last child ends, and its children are ordered by
\* position and do not overlap.
C14_SpanCoverage ==
  Produced =>
    \A n \in NodesOf(ast) :
      Kids(n) # <<>> =>
        /\ HasSpan(n)
        /\ \A i \in 1..Len(Kids(n)) : HasSpan(Kids(n)[i])
        /\ Span(n).startOffset = Span(Kids(n)[1]).startOffset
        /\ Span(n).endOffset = Span(Kids(n)[Len(Kids(n))]).endOffset
        /\ \A i \in 1..(Len(Kids(n)) - 1) :
             Span(Kids(n)[i]).endOffset <= Span(Kids(n)[i + 1]).startOffset

\* A leaf: a node with no child sequence of any name.
IsLeaf(n) ==
  ~(Has(n, "children") \/ Has(n, "body") \/ Has(n, "declarations") \/ Has(n, "id"))

\* C15: token-leaf law: in every produced tree a node has no children field
\* exactly if it is a leaf, and every node that is not a leaf has one.
C15_TokenLeaf ==
  Produced =>
    \A n \in NodesOf(ast) : ~Has(n, "children") <=> IsLeaf(n)

Parsed == pc \in {"parsed", "visited", "returned"}

\* C16: for every rule context the computed position satisfies
\* 0 <= startOffset <= endOffset <= len(source), and a context without a stop
\* token gets the non-empty span of its start token.
C16_PositionWithinSource ==
  Parsed =>
    \A ctx \in Contexts(tree) :
      LET loc == getLocation(tokens, ctx)
      IN /\ 0 <= loc.start.offset
         /\ loc.start.offset <= loc.end.offset
         /\ loc.end.offset <= Len(source)
         /\ ctx.stop = Undefined => loc.start.offset < loc.end.offset

\* The last token of a context, as getLocation takes it.
StopToken(ctx) == IF ctx.stop # Undefined THEN tokens[ctx.stop] ELSE tokens[ctx.start]

\* C17 as stated: for every rule context the end offset getLocation computes
\* is the start index of the context's last token plus the length of that
\* token's text, and the start offset is the start index of its first token.
C17_EndIsStartPlusLength ==
  Parsed =>
    \A ctx \in Contexts(tree) :
      LET loc == getLocation(tokens, ctx)
      IN /\ loc.start.offset = tokens[ctx.start].startIndex
         /\ loc.end.offset = StopToken(ctx).startIndex + Len(StopToken(ctx).text)

\* C17 as amended: the equation holds for every context whose last token is
\* not the end-of-file token; for a context that ends with the end-of-file
\* token the end offset is the length of the source.
C17_EndOffsetHalfOpen ==
  Parsed =>
    \A ctx \in Contexts(tree) :
      LET loc == getLocation(tokens, ctx)
      IN /\ loc.start.offset = tokens[ctx.start].startIndex
         /\ StopToken(ctx).type # "EOF" =>
              loc.end.offset = StopToken(ctx).startIndex + Len(StopToken(ctx).text)
         /\ StopToken(ctx).type = "EOF" => loc.end.offset = Len(source)

\* A tree with a context of several tokens whose last token has more than one
\* character, and with its entry context, which ends with the end-of-file
\* token.
C17_Witness ==
  /\ Parsed
  /\ \E ctx \in Contexts(tree) :
       /\ ctx.stop # ctx.start
       /\ StopToken(ctx).type # "EOF"
       /\ Len(StopToken(ctx).text) > 1
  /\ \E ctx \in Contexts(tree) : StopToken(ctx).type = "EOF"

\* C18: the visitor is total, and a context without a visit method of its own
\* gives a node tagged Unknown that carries text, position and children, so
\* that every node of the output tree has a type, a text and a position.
C18_FallbackNodeComplete ==
  Produced =>
    \A n \in NodesOf(ast) :
      /\ Has(n, "type") /\ Has(n, "text") /\ HasSpan(n)
      /\ n.type = "Unknown" => Has(n, "children")

\* C19: parse returns null whenever the parser reported a syntax error, and a
\* root node otherwise.
C19_NullOnSyntaxError ==
  pc = "returned" => (errors > 0 <=> ast = NullNode)

\* A node that marks what could not be parsed.
IsMarker(n) == n.type \in {"Unknown", "Error"}

\* C20: for malformed input parse completes and returns null or a tree that
\* contains an explicit fallback or error-marker node.
C20_MalformedGivesNullOrMarker ==
  (pc = "returned" /\ errors > 0) =>
    \/ ast = NullNode
    \/ \E n \in NodesOf(ast) : IsMarker(n)

CallDone(c) == call[c].pc \in {"returned", "traversed"}

Alone(code) ==
  LET toks == Lexer(code)
  IN visit(lang, toks, ParseTree(lang, toks, Recognised(lang, TokenTexts(toks)), parser))

\* C22: calls of parse on separate inputs, and the traversals of their
\* results, share no state: under every interleaving of their steps each call
\* returns the tree it returns alone, and its traversal sees that tree.
C22_CallsIndependent ==
  pc = "calls" =>
    \A c \in Calls :
      /\ CallDone(c) => call[c].ast = Alone(call[c].code)
      /\ call[c].pc = "traversed" => call[c].visited = traverseNode(Alone(call[c].code))

\* Call a is traversed while call b, on another text, has its parse tree and
\* has not yet run its visitor.
C22_Witness ==
  /\ pc = "calls"
  /\ call["a"].code # call["b"].code
  /\ call["a"].pc = "traversed"
  /\ call["a"].visited # <<>>
  /\ call["b"].pc = "parsed"
  /\ call["b"].tree.rule # "none"

NoNullIn(nodes) == \A i \in 1..Len(nodes) : nodes[i] # NullNode

InSourceOrder(nodes) ==
  \A i, j \in 1..Len(nodes) :
    (i < j /\ nodes[i] # NullNode /\ nodes[j] # NullNode
       /\ HasSpan(nodes[i]) /\ HasSpan(nodes[j])) =>
      Span(nodes[i]).startOffset < Span(nodes[j]).startOffset

C26_TransformIdentity ==
  (op = "transformNode" /\ arg = {"identity"}) =>
    Value(heap, result) = Value(input, root)

\* An identity transform of a tree with a node of two children, a Token and a
\* node whose children is the empty array.
C26_Witness ==
  /\ op = "transformNode"
  /\ arg = {"identity"}
  /\ \E a, b, c \in InputNodes :
       /\ isToken(input[a])
       /\ ~isToken(input[b]) /\ ~hasChildren(input[b])
       /\ Len(input[c].children) >= 2

RECURSIVE Reached(_, _)
Reached(T, a) ==
  {a} \cup UNION { Reached(T, TransformedChildren(T, a)[i]) :
                     i \in 1..Len(TransformedChildren(T, a)) }

C28_FilterIdempotent ==
  (op = "filterNodes" /\ result # Null) =>
    LET again == filterNodes(heap, result, arg)
    IN /\ again.result # Null
       /\ Value(again.heap, again.result) = Value(heap, result)
       /\ \A b \in Descendants(heap, result) : predicate(arg, heap[b])

\* C28 as amended: the same for every predicate that reads only the type of
\* the node, not its children.
C28_FilterIdempotentByType ==
  (op = "filterNodes" /\ result # Null /\ arg \subseteq Types) =>
    LET again == filterNodes(heap, result, arg)
    IN /\ again.result # Null
       /\ Value(again.heap, again.result) = Value(heap, result)
       /\ \A b \in Descendants(heap, result) : predicate(arg, heap[b])

\* A filter by type that keeps the root and a node below it and prunes a
\* node that has a passing child.
C28_Witness ==
  /\ op = "filterNodes"
  /\ arg \subseteq Types
  /\ result # Null
  /\ hasChildren(heap[result])
  /\ \E a \in InputNodes :
       /\ ~predicate(arg, input[a])
       /\ \E b \in ProperDescendants(input, a) : predicate(arg, input[b])

----------------------------------------------------------------------------
(* Properties of the documented utilities *)

\* The statements of a Program.
StatementsOf(node) == IF Has(node, "body") THEN node.body ELSE node.children

\* C24: extractIdentifiers returns one entry per identifier occurrence of the
\* source, in source order, none repeated.
C24_ExtractIdentifiers ==
  (op = "extractIdentifiers" /\ ast.type = "Program") => results = tokens

\* C25: countStatements returns the number of statements of the program, each
\* counted once and the Program root not counted.
C25_CountStatements ==
  (op = "countStatements" /\ ast.type = "Program") => result = Len(StatementsOf(ast))

\* C29: one call visit(root) of the custom visitor terminates without throwing
\* and dispatches each node to its handler at most once.
C29_VisitDispatchesOnce ==
  op = "visit" =>
    /\ arg = {}
    /\ NoDuplicates(calls)

\* The declarators and the Identifier nodes the traversal of the tree reaches.
Declarators ==
  { n \in Range(traverseNode(ast)) : n.type = "VariableDeclarator" /\ Has(n, "id") }

References ==
  { n \in Range(traverseNode(ast)) : n.type = "Identifier" }
  \ { d.id : d \in Declarators }

\* C30: findUnusedVariables returns exactly the names a VariableDeclarator
\* declares that no Identifier other than the declaring one refers to.
C30_FindUnusedVariables ==
  op = "findUnusedVariables" =>
    Range(results) = { d.id.name : d \in Declarators } \ { n.text : n \in References }

====
